---------------------------- MODULE Spec2Model ----------------------------
(***************************************************************************)
(* A state-machine model of the pawaPay client (src/pawapay/client.py):   *)
(* the transport (_make_request over a requests.Session mounted with a    *)
(* urllib3 Retry), correspondent prediction, deposit / payout submission, *)
(* status checks, response mapping (src/pawapay/models.py) and callback   *)
(* validation.                                                            *)
(*                                                                         *)
(* One client call runs at a time.  A call is split at its only suspension *)
(* point, the network: Attempt is one transmission of the current request  *)
(* together with the provider's (or the network's) answer, the retry       *)
(* decision of urllib3 and, when the transport is finished, the rest of    *)
(* the handler up to the next transmission or to the end of the call.      *)
(*                                                                         *)
(* Python values: every JSON scalar is a string; None is the string None   *)
(* below and a key missing from a dict is Absent.  Wall-clock values       *)
(* (customerTimestamp, backoff sleeps) are not modelled.                   *)
(***************************************************************************)
EXTENDS Integers, Sequences, FiniteSets, TLC

VARIABLES
    config,      \* the PawaPayConfig handed to PawaPayClient(config)
    session,     \* TRUE once __init__ has created and mounted self.session
    pc,          \* "new" | "failed" | "idle" | "sending" | "done"
    call,        \* the running (or last) call: its operation and arguments
    stage,       \* which request of the call is on the wire
    correspondent, \* request_deposit / request_payout's local `correspondent`
    request,     \* the request _make_request is sending, with its Retry budget
    wire,        \* every transmission of the current call, in order
    last,        \* the latest answer to `request`, with a summary of the earlier
    result,      \* what the call returned or raised
    uuid_count,  \* number of uuid4() values drawn so far
    threads      \* the frames of request_deposit / request_payout calls that
                 \* two threads make on the one client at the same time

vars == <<config, session, pc, call, stage, correspondent, request, wire, last, result, uuid_count,
          threads>>

(***************************************************************************)
(* Bounds of the model.                                                    *)
(***************************************************************************)
MaxRetriesBound == 2   \* config.max_retries ranges over 0..MaxRetriesBound
MaxUuid == 2           \* deposit / payout calls start while uuid_count < MaxUuid

(***************************************************************************)
(* Python values.                                                          *)
(***************************************************************************)
None == "<None>"
Absent == "<absent>"

\* `not x` for an Optional[str]
Falsy(x) == x = None \/ x = ""

\* dict.get(key): a missing key reads as None
Get(v) == IF v = Absent THEN None ELSE v

\* dict.get(key, default)
GetOr(v, default) == IF v = Absent THEN default ELSE v

\* str(uuid.uuid4()): the n-th value drawn; distinct draws are distinct strings
UuidTable ==
    <<"uuid-1", "uuid-2", "uuid-3", "uuid-4", "uuid-5", "uuid-6", "uuid-7",
      "uuid-8", "uuid-9", "uuid-10", "uuid-11", "uuid-12">>

\* (mutant) the identifier is derived from the clock, which two calls made
\* at the same moment read alike
generate_request_id_from_clock(n) == UuidTable[1]

generate_request_id(n) == UuidTable[n]


(***************************************************************************)
(* JSON documents.  A provider document is a record over every key the     *)
(* client reads; a key the document does not carry is Absent.  The nested  *)
(* objects the client reads one key of are flattened: rejectionCode and    *)
(* rejectionMessage are rejectionReason's keys, payer / recipient stand    *)
(* for the MSISDN under address.value.                                     *)
(***************************************************************************)
EmptyObj ==
    [status |-> Absent, depositId |-> Absent, payoutId |-> Absent,
     created |-> Absent, amount |-> Absent, depositedAmount |-> Absent,
     currency |-> Absent, correspondent |-> Absent, failureReason |-> Absent,
     rejectionCode |-> Absent, rejectionMessage |-> Absent,
     payer |-> Absent, recipient |-> Absent,
     errorCode |-> Absent, errorMessage |-> Absent, details |-> Absent]

\* the dict handed to _make_request as `data` (None when there is none)
EmptyData ==
    [depositId |-> Absent, payoutId |-> Absent, amount |-> Absent,
     country |-> Absent, currency |-> Absent, correspondent |-> Absent,
     payer |-> Absent, recipient |-> Absent,
     statementDescription |-> Absent, msisdn |-> Absent]

(***************************************************************************)
(* Exceptions: the class raised and what it carries.                       *)
(***************************************************************************)
Exc(type, message) ==
    [type |-> type, message |-> message, status_code |-> 0,
     error_code |-> None, details |-> None,
     cause |-> None, code |-> None, text |-> None]

\* PawaPayAPIException(message, status_code, error_code, details)
PawaPayAPIException(message, status_code, error_code, details) ==
    [Exc("PawaPayAPIException", message) EXCEPT
        !.status_code = status_code,
        !.error_code = error_code,
        !.details = IF details = None THEN "{}" ELSE details]

\* the classes of src/pawapay/exceptions.py
PawaPayTaxonomy ==
    {"PawaPayException", "PawaPayAPIException", "PawaPayValidationException",
     "PawaPayConfigurationException", "PawaPayTimeoutException",
     "PawaPayNetworkException"}

\* PawaPayError.from_dict(error_data)
PawaPayError_from_dict(data) ==
    [error_code |-> GetOr(data.errorCode, "UNKNOWN"),
     error_message |-> GetOr(data.errorMessage, "Unknown error"),
     details |-> Get(data.details)]

(***************************************************************************)
(* The transport: requests.Session with HTTPAdapter(max_retries=Retry(     *)
(* total=config.max_retries, backoff_factor=1, status_forcelist=[...])).   *)
(* Everything Retry is not given keeps urllib3's default: allowed_methods  *)
(* is the idempotent methods, respect_retry_after_header is True,          *)
(* raise_on_status is True.                                                *)
(***************************************************************************)
status_forcelist == {429, 500, 502, 503, 504}

\* urllib3 Retry.DEFAULT_ALLOWED_METHODS
DEFAULT_ALLOWED_METHODS == {"HEAD", "GET", "PUT", "DELETE", "OPTIONS", "TRACE"}

\* urllib3 Retry.RETRY_AFTER_STATUS_CODES
RETRY_AFTER_STATUS_CODES == {413, 429, 503}

\* the statuses _make_request returns the body of
SuccessStatuses == {200, 201, 202}

\* Retry._is_method_retryable
is_method_retryable(method) == method \in DEFAULT_ALLOWED_METHODS

\* Retry.is_retry(method, status_code, has_retry_after), with `total` left
is_retry(method, status_code, has_retry_after, total) ==
    /\ is_method_retryable(method)
    /\ \/ status_code \in status_forcelist
       \/ /\ total # 0
          /\ has_retry_after
          /\ status_code \in RETRY_AFTER_STATUS_CODES

\* Retry.increment: one retry is spent; MaxRetryError when none is left
is_exhausted(total) == total < 0

(***************************************************************************)
(* One pass of HTTPConnectionPool.urlopen on answer `o` with `total`       *)
(* retries left: send again, hand the response over, or raise the          *)
(* requests exception HTTPAdapter.send maps urllib3's error to.            *)
(***************************************************************************)
SendAgain(total) == [kind |-> "retry", total |-> total, raised |-> None]
HandOver == [kind |-> "response", total |-> 0, raised |-> None]
Raised(cls) == [kind |-> "raise", total |-> 0, raised |-> cls]

\* (mutant) an answer whose body says REJECTED is sent again like a
\* transient failure
urlopen_resubmitting_rejections(method, total, o) ==
    CASE o.kind = "response" ->
            IF o.has_content /\ o.obj.status = "REJECTED" /\ ~is_exhausted(total - 1)
            THEN SendAgain(total - 1)
            ELSE IF is_retry(method, o.status, o.retry_after, total)
            THEN IF is_exhausted(total - 1)
                 THEN Raised("RetryError")
                 ELSE SendAgain(total - 1)
            ELSE HandOver
      [] o.kind \in {"connect_timeout", "connection_refused"} ->
            IF is_exhausted(total - 1)
            THEN Raised(IF o.kind = "connect_timeout"
                        THEN "ConnectTimeout" ELSE "ConnectionError")
            ELSE SendAgain(total - 1)
      [] o.kind = "read_timeout" ->
            IF ~is_method_retryable(method)
            THEN Raised("ReadTimeout")
            ELSE IF is_exhausted(total - 1)
                 THEN Raised("ConnectionError")
                 ELSE SendAgain(total - 1)

urlopen(method, total, o) ==
    CASE o.kind = "response" ->
            IF is_retry(method, o.status, o.retry_after, total)
            THEN IF is_exhausted(total - 1)
                 THEN Raised("RetryError")
                 ELSE SendAgain(total - 1)
            ELSE HandOver
      [] o.kind \in {"connect_timeout", "connection_refused"} ->
            IF is_exhausted(total - 1)
            THEN Raised(IF o.kind = "connect_timeout"
                        THEN "ConnectTimeout" ELSE "ConnectionError")
            ELSE SendAgain(total - 1)
      [] o.kind = "read_timeout" ->
            IF ~is_method_retryable(method)
            THEN Raised("ReadTimeout")
            ELSE IF is_exhausted(total - 1)
                 THEN Raised("ConnectionError")
                 ELSE SendAgain(total - 1)

\* response.json() if response.content else {}
response_json(o) == IF o.has_content THEN o.obj ELSE EmptyObj

(***************************************************************************)
(* _make_request once the session call is over: the returned JSON, or the  *)
(* exception raised.  `step` is urlopen's verdict on the last answer `o`.  *)
(***************************************************************************)
Returned(o) == [kind |-> "return", is_list |-> o.has_content /\ o.is_list,
                obj |-> response_json(o),
                items |-> IF o.has_content /\ o.is_list THEN o.items ELSE <<>>,
                exc |-> Exc(None, None)]

Failed(exc) == [kind |-> "raise", is_list |-> FALSE, obj |-> EmptyObj,
                items |-> <<>>, exc |-> exc]

make_request_outcome(step, o) ==
    IF step.kind = "raise"
    THEN \* except requests.exceptions.RequestException
         Failed([Exc("PawaPayException", "Request failed") EXCEPT
                    !.cause = step.raised])
    ELSE IF o.status \in SuccessStatuses
         THEN Returned(o)
         ELSE LET error == PawaPayError_from_dict(response_json(o))
              IN  Failed(PawaPayAPIException("API Error", o.status,
                                             error.error_code, error.details))


(***************************************************************************)
(* src/pawapay/models.py: the typed responses.                             *)
(***************************************************************************)
\* the values of enum TransactionStatus
TransactionStatus ==
    {"ACCEPTED", "ENQUEUED", "COMPLETED", "SUBMITTED", "FAILED", "REJECTED",
     "DUPLICATE_IGNORED"}

\* `a or b`
Or(a, b) == IF Falsy(a) THEN b ELSE a

\* the `created` strings datetime.fromisoformat accepts once 'Z' is replaced
\* by '+00:00', with the datetime each denotes (written in isoformat)
IsoTable ==
    {<<"2024-05-01T10:00:00Z", "2024-05-01T10:00:00+00:00">>,
     <<"2024-05-02T08:30:00+00:00", "2024-05-02T08:30:00+00:00">>}

IsIsoFormat(s) == \E e \in IsoTable : e[1] = s

\* datetime.fromisoformat(s.replace('Z', '+00:00'))
fromisoformat(s) == (CHOOSE e \in IsoTable : e[1] = s)[2]

NoResponse ==
    [transaction_id |-> None, status |-> None, amount |-> None,
     currency |-> None, correspondent |-> None, created |-> None,
     failure_reason |-> None, deposit_id |-> None, payout_id |-> None,
     payer |-> None, recipient |-> None]

\* what a call hands back: a typed response, a scalar (Optional[str]), a bool,
\* or the exception it raises
Value(response) == [kind |-> "return", response |-> response, scalar |-> None,
                    flag |-> FALSE, list |-> <<>>, exc |-> Exc(None, None)]
Scalar(v) == [Value(NoResponse) EXCEPT !.scalar = v]
Flag(b) == [Value(NoResponse) EXCEPT !.flag = b]
List(l) == [Value(NoResponse) EXCEPT !.list = l]
Raise(exc) == [kind |-> "raise", response |-> NoResponse, scalar |-> None,
               flag |-> FALSE, list |-> <<>>, exc |-> exc]
NoResult == [Value(NoResponse) EXCEPT !.kind = "none"]

\* TransactionStatus(value): the member, or ValueError
status_lookup(value) == value \in TransactionStatus

\* TransactionResponse.from_dict(data): keyword arguments are evaluated in
\* the order written, so the first failing one decides the exception
TransactionResponse_from_dict(data) ==
    IF data.status = Absent THEN Raise(Exc("KeyError", "status"))
    ELSE IF ~status_lookup(data.status)
    THEN Raise(Exc("ValueError", "is not a valid TransactionStatus"))
    ELSE IF data.currency = Absent THEN Raise(Exc("KeyError", "currency"))
    ELSE IF data.correspondent = Absent THEN Raise(Exc("KeyError", "correspondent"))
    ELSE IF data.created = Absent THEN Raise(Exc("KeyError", "created"))
    ELSE IF ~IsIsoFormat(data.created)
    THEN Raise(Exc("ValueError", "Invalid isoformat string"))
    ELSE Value([NoResponse EXCEPT
            !.transaction_id = Or(Get(data.depositId), Get(data.payoutId)),
            !.status = data.status,
            !.amount = GetOr(data.amount, Get(data.depositedAmount)),
            !.currency = data.currency,
            !.correspondent = data.correspondent,
            !.created = fromisoformat(data.created),
            !.failure_reason = Get(data.failureReason)])

\* DepositResponse.from_dict(data)
DepositResponse_from_dict(data) ==
    LET base == TransactionResponse_from_dict(data)
    IN  IF base.kind = "raise" THEN base
        ELSE IF data.depositId = Absent THEN Raise(Exc("KeyError", "depositId"))
        ELSE Value([base.response EXCEPT
                !.deposit_id = data.depositId,
                !.payer = GetOr(data.payer, "{}")])

\* PayoutResponse.from_dict(data)
PayoutResponse_from_dict(data) ==
    LET base == TransactionResponse_from_dict(data)
    IN  IF base.kind = "raise" THEN base
        ELSE IF data.payoutId = Absent THEN Raise(Exc("KeyError", "payoutId"))
        ELSE Value([base.response EXCEPT
                !.payout_id = data.payoutId,
                !.recipient = GetOr(data.recipient, "{}")])


(***************************************************************************)
(* src/pawapay/client.py: the handlers, from the point where _make_request *)
(* has come back with `out`.                                               *)
(***************************************************************************)
\* predict_correspondent: only PawaPayAPIException is caught
predict_correspondent(out) ==
    IF out.kind = "raise"
    THEN IF out.exc.type = "PawaPayAPIException" THEN Scalar(None) ELSE Raise(out.exc)
    ELSE Scalar(Get(out.obj.correspondent))

\* DepositRequest(...).to_dict() / PayoutRequest(...).to_dict()
DepositRequest_to_dict(id, c, corr) ==
    [EmptyData EXCEPT
        !.depositId = id, !.amount = c.amount, !.currency = c.currency,
        !.correspondent = corr, !.payer = c.phone_number,
        !.statementDescription =
            IF Falsy(c.statement_description) THEN Absent ELSE c.statement_description]

PayoutRequest_to_dict(id, c, corr) ==
    [EmptyData EXCEPT
        !.payoutId = id, !.amount = c.amount, !.country = c.country,
        !.currency = c.currency, !.correspondent = corr,
        !.recipient = c.phone_number,
        !.statementDescription =
            IF Falsy(c.statement_description) THEN Absent ELSE c.statement_description]

\* raise ValueError("... was rejected. Code: ..., Message: ...")
Rejected(data) ==
    Raise([Exc("ValueError", "was rejected") EXCEPT
              !.code = Get(data.rejectionCode),
              !.text = Get(data.rejectionMessage)])

\* (mutant) the provider's echo is mapped as it came, not overwritten
request_deposit_map_echo(c, corr, out) ==
    IF out.kind = "raise" THEN Raise(out.exc)
    ELSE IF Get(out.obj.status) = "REJECTED" THEN Rejected(out.obj)
    ELSE DepositResponse_from_dict(out.obj)

\* request_deposit after the submission came back (client.py 178-194)
request_deposit_map(c, corr, out) ==
    IF out.kind = "raise" THEN Raise(out.exc)
    ELSE IF Get(out.obj.status) = "REJECTED" THEN Rejected(out.obj)
    ELSE DepositResponse_from_dict(
            [out.obj EXCEPT !.amount = c.amount, !.currency = c.currency,
                            !.correspondent = corr, !.payer = c.phone_number])

\* request_payout after the submission came back (client.py 232-248)
request_payout_map(c, corr, out) ==
    IF out.kind = "raise" THEN Raise(out.exc)
    ELSE IF Get(out.obj.status) = "REJECTED" THEN Rejected(out.obj)
    ELSE PayoutResponse_from_dict(
            [out.obj EXCEPT !.amount = c.amount, !.currency = c.currency,
                            !.correspondent = corr, !.recipient = c.phone_number])

\* Correspondent.from_dict(data): the first missing key raises KeyError
Correspondent_missing_key(data) ==
    IF data.correspondent = Absent THEN "correspondent"
    ELSE IF data.country = Absent THEN "country"
    ELSE IF data.currency = Absent THEN "currency"
    ELSE None

Correspondent_from_dict(data) ==
    [correspondent |-> data.correspondent, country |-> data.country,
     currency |-> data.currency]

\* (mutant) the country is filled in only where the entry names none
set_country_if_missing(correspondent_data, country_data) ==
    IF correspondent_data.country # Absent THEN correspondent_data
    ELSE [correspondent_data EXCEPT !.country = country_data.country]

\* correspondent_data['country'] = country_data['country']
set_country(correspondent_data, country_data) ==
    [correspondent_data EXCEPT !.country = country_data.country]

\* country_data.get('correspondents', [])
listed(country_data) ==
    IF country_data.has_correspondents THEN country_data.correspondents ELSE <<>>

\* the two loops of get_correspondents: every correspondent_data, in the
\* order visited, with its country set
RECURSIVE visited(_)
visited(countries) ==
    IF countries = <<>> THEN <<>>
    ELSE [i \in 1..Len(listed(Head(countries))) |->
                set_country(listed(Head(countries))[i], Head(countries))]
         \o visited(Tail(countries))

\* get_correspondents after GET /active-conf came back; `countries` is
\* config.get('countries', [])
get_correspondents_map(out, countries) ==
    IF out.kind = "raise" THEN Raise(out.exc)
    ELSE LET seen == visited(countries)
             bad == {i \in DOMAIN seen : Correspondent_missing_key(seen[i]) # None}
         IN  IF bad # {}
             THEN Raise(Exc("KeyError", Correspondent_missing_key(
                        seen[CHOOSE i \in bad : \A j \in bad : i <= j])))
             ELSE List([i \in DOMAIN seen |-> Correspondent_from_dict(seen[i])])

\* response_data[0]: the first element of the list, IndexError on an empty
\* list, KeyError on the {} an empty body reads as
first_element(out) ==
    IF ~out.is_list THEN Raise(Exc("KeyError", "0"))
    ELSE IF Len(out.items) = 0 THEN Raise(Exc("IndexError", "list index out of range"))
    ELSE Value(NoResponse)

\* check_deposit_status / check_payout_status after the GET came back
check_deposit_status_map(out) ==
    IF out.kind = "raise" THEN Raise(out.exc)
    ELSE IF first_element(out).kind = "raise" THEN first_element(out)
    ELSE DepositResponse_from_dict(out.items[1])

check_payout_status_map(out) ==
    IF out.kind = "raise" THEN Raise(out.exc)
    ELSE IF first_element(out).kind = "raise" THEN first_element(out)
    ELSE PayoutResponse_from_dict(out.items[1])

(***************************************************************************)
(* validate_callback.  hmac.new(secret, payload, sha256).hexdigest() is    *)
(* tabulated with its true values over the secrets and payloads of the     *)
(* model; hmac.compare_digest raises TypeError on a None argument and on a *)
(* str holding a non-ASCII character.                                      *)
(***************************************************************************)
HmacTable ==
    {<<"whsec_A", "[1]", "9bfe55bb707e9262ac0c8244684d9bbdc7672d4bc6ed45c0f50681bdd3bda450">>,
     <<"whsec_A", "[2]", "2725411b68253677aba0b1db988e06acfaf959f0a29914aba7328ecda620f9c4">>,
     <<"whsec_A", "[3]", "c12ac21e37cfeadf32ca32cac10e84227b714226f7bacbf0173f207bbd2c4511">>,
     <<"whsec_B", "[1]", "76bbd375b628355448f842e223017d7c9009b2b3c7e7390da90b5201e5e26b54">>,
     <<"whsec_B", "[2]", "4cebc7394612d791d0e3231f6447dc38ccdd11d676bd028b3578851406dea62a">>,
     <<"whsec_B", "[3]", "dfa4ee054b1d8b3f47bcf3e2ff5e606ccb56b0bbab4bdc723925794865c54677">>,
     <<"", "[1]", "e2e83749d9d04db269b1b5091378d41555010e01b460f15b6001fcdb30c8794b">>,
     <<"", "[2]", "76386047cdff6c3ab2efa6d26e5bec9e1be28876f2b6c41a0f01112ae52c97ef">>,
     <<"", "[3]", "47d30d2381fc87da6f6491071662840f95bd0e34cfff68c2cff6379d6c90d355">>}

hmac_sha256_hexdigest(key, payload) ==
    (CHOOSE e \in HmacTable : e[1] = key /\ e[2] = payload)[3]

\* signatures that hold a character outside ASCII (written U+00E9 here)
NonAsciiSignatures ==
    {"9bfe55bb707e9262ac0c8244684d9bbdc7672d4bc6ed45c0f50681bdd3bda45|U+00E9|"}

\* hmac.compare_digest(a, b) for b an ASCII str
compare_digest(a, b) ==
    IF a = None \/ a \in NonAsciiSignatures
    THEN Raise(Exc("TypeError", "unsupported operand types(s) or combination of types"))
    ELSE Flag(a = b)

\* (mutant) only an absent secret counts as missing, an empty one does not
secret_missing_only_none(secret) == secret = None

\* `not self.config.callback_secret`
secret_missing(secret) == Falsy(secret)

validate_callback(secret, payload, signature) ==
    IF secret_missing(secret) THEN Flag(FALSE)
    ELSE compare_digest(signature, hmac_sha256_hexdigest(secret, payload))


(***************************************************************************)
(* What callers pass in.                                                   *)
(***************************************************************************)
Amounts == {"100.00", "12.5"}
Currencies == {"KES"}
Countries == {"KEN"}
PhoneNumbers == {"254700000001"}
GivenCorrespondents == {None, "", "MPESA_KEN", "no such correspondent"}
Descriptions == {None, "Order 7"}
Secrets == {None, "", "whsec_A", "whsec_B"}
Payloads == {"[1]", "[2]", "[3]"}
TransactionIds == {"uuid-1"}
Signatures ==
    {e[3] : e \in HmacTable} \cup NonAsciiSignatures \cup
    {None, "", "9BFE55BB707E9262AC0C8244684D9BBDC7672D4BC6ED45C0F50681BDD3BDA450"}

NoCall ==
    [op |-> "none", amount |-> None, currency |-> None, country |-> None,
     phone_number |-> None, correspondent |-> None,
     statement_description |-> None, id |-> None,
     payload |-> None, signature |-> None]

(***************************************************************************)
(* What the network and the provider can answer to one transmission.       *)
(***************************************************************************)
Answer(kind, status, retry_after, has_content, is_list, obj, items) ==
    [kind |-> kind, status |-> status, retry_after |-> retry_after,
     has_content |-> has_content, is_list |-> is_list, obj |-> obj,
     items |-> items]

NetworkFailures ==
    {Answer(k, 0, FALSE, FALSE, FALSE, EmptyObj, <<>>) :
        k \in {"connect_timeout", "connection_refused", "read_timeout"}}

OtherStatuses == {204, 400, 404, 409, 413, 429, 500, 502, 503, 504}

ErrorBodies ==
    {EmptyObj,
     [EmptyObj EXCEPT !.errorCode = "INVALID_INPUT", !.errorMessage = "bad input",
                      !.details = "field"]}

\* retry_after: the response carries a Retry-After header
ErrorAnswers ==
    {Answer("response", st, ra, b # EmptyObj, FALSE, b, <<>>) :
        st \in OtherStatuses, ra \in BOOLEAN, b \in ErrorBodies}

Success(obj) ==
    {Answer("response", st, FALSE, TRUE, FALSE, obj, <<>>) : st \in SuccessStatuses}

EmptySuccess ==
    {Answer("response", st, FALSE, FALSE, FALSE, EmptyObj, <<>>) : st \in SuccessStatuses}

\* answers of /v1/predict-correspondent
PredictBodies ==
    {EmptyObj, [EmptyObj EXCEPT !.correspondent = "MTN_MOMO_KEN"],
     [EmptyObj EXCEPT !.correspondent = ""]}

PredictAnswers ==
    UNION {Success(b) : b \in PredictBodies} \cup EmptySuccess
        \cup ErrorAnswers \cup NetworkFailures

\* answers of POST /deposits and POST /payouts to the submission of `id`
SubmitBody(op, id, st, ide, cr) ==
    [EmptyObj EXCEPT
        !.status = st,
        !.depositId = IF op = "request_deposit" THEN ide ELSE Absent,
        !.payoutId = IF op = "request_payout" THEN ide ELSE Absent,
        !.created = cr]

SubmitBodies(op, id) ==
    {SubmitBody(op, id, st, ide, cr) :
        st \in {Absent, "ACCEPTED", "REJECTED", "DUPLICATE_IGNORED", "PENDING"},
        ide \in {Absent, id},
        cr \in {Absent, "2024-05-01T10:00:00Z", "yesterday"}}
    \cup
    \* a rejection that says why
    {[SubmitBody(op, id, "REJECTED", ide, Absent) EXCEPT
        !.rejectionCode = "INVALID_AMOUNT",
        !.rejectionMessage = "Amount too low"] : ide \in {Absent, id}}
    \cup
    \* an acceptance that echoes fields, with values of its own
    {[SubmitBody(op, id, st, id, "2024-05-01T10:00:00Z") EXCEPT
        !.amount = "999", !.currency = "UGX", !.correspondent = "AIRTEL_UGA",
        !.payer = "256700000002", !.recipient = "256700000002"] :
        st \in {"ACCEPTED", "PENDING"}}

SubmitAnswers(op, id) ==
    UNION {Success(b) : b \in SubmitBodies(op, id)} \cup EmptySuccess
        \cup ErrorAnswers \cup NetworkFailures

\* elements of the list GET /deposits/{id} and GET /payouts/{id} answer with
StatusElement(op, id, st) ==
    [EmptyObj EXCEPT
        !.status = st,
        !.depositId = IF op = "check_deposit_status" THEN id ELSE Absent,
        !.payoutId = IF op = "check_payout_status" THEN id ELSE Absent,
        !.created = "2024-05-02T08:30:00+00:00",
        !.amount = "100.00", !.currency = "KES", !.correspondent = "MPESA_KEN"]

StatusElements(op, id) ==
    {StatusElement(op, id, st) : st \in {"COMPLETED", "PENDING", Absent}}
        \cup {[StatusElement(op, id, "SUBMITTED") EXCEPT
                  !.amount = Absent, !.depositedAmount = "99.00",
                  !.failureReason = "none"],
              [StatusElement(op, id, "COMPLETED") EXCEPT !.currency = Absent]}

MaxListLen == 2

Lists(S) == UNION {[1..n -> S] : n \in 0..MaxListLen}

StatusAnswers(op, id) ==
    {Answer("response", st, FALSE, TRUE, TRUE, EmptyObj, l) :
        st \in SuccessStatuses, l \in Lists(StatusElements(op, id))}
        \cup EmptySuccess \cup ErrorAnswers \cup NetworkFailures

\* the correspondents the active configuration lists under a country; an
\* entry may carry a country field of its own
CountryData(country, has_correspondents, correspondents) ==
    [country |-> country, has_correspondents |-> has_correspondents,
     correspondents |-> correspondents]

\* the elements of the document's 'countries' list: two correspondents, one
\* correspondent, an empty list, no 'correspondents' key
Mpesa == [correspondent |-> "MPESA_KEN", currency |-> "KES", country |-> Absent]
Airtel == [correspondent |-> "AIRTEL_UGA", currency |-> "UGX", country |-> "ZZZ"]

CountryBlocks ==
    {CountryData("KEN", TRUE, <<Mpesa, Airtel>>),
     CountryData("UGA", TRUE, <<Airtel>>),
     CountryData("TZA", TRUE, <<>>),
     CountryData("ZMB", FALSE, <<>>)}

MaxCountries == 2

ConfDocuments == UNION {[1..n -> CountryBlocks] : n \in 0..MaxCountries}

\* answers of GET /active-conf: `items` holds the document's 'countries'
ConfAnswers ==
    {Answer("response", st, FALSE, TRUE, FALSE, EmptyObj, d) :
        st \in SuccessStatuses, d \in ConfDocuments}
        \cup EmptySuccess \cup ErrorAnswers \cup NetworkFailures

\* config.get('countries', []) of the document in answer o
countries_of(o) == IF o.has_content THEN o.items ELSE <<>>

(***************************************************************************)
(* The state machine.                                                      *)
(***************************************************************************)
\* _calculate_signature(body): the SHA-256 hex digest of the body's bytes,
\* kept as "the digest of this body" (no two bodies share a digest)
calculate_signature(body) == [sha256_of |-> body]

\* the request has no Content-Digest header
NoDigest == [present |-> FALSE, value |-> calculate_signature(EmptyData)]

NoRequest ==
    [method |-> None, endpoint |-> None, path_id |-> None, has_data |-> FALSE,
     data |-> EmptyData, content_digest |-> NoDigest, total |-> 0]

\* `last`: the latest answer to `request`, whether every answer to it so far
\* was a transient status / a timeout, and how many of its transmissions
\* got an HTTP response
NoAnswer ==
    [answer |-> Answer("none", 0, FALSE, FALSE, FALSE, EmptyObj, <<>>),
     all_transient |-> TRUE, all_timeouts |-> TRUE, responses |-> 0]

Seen(o) ==
    [answer |-> o,
     all_transient |-> last.all_transient /\ o.kind = "response"
                       /\ o.status \in status_forcelist,
     all_timeouts |-> last.all_timeouts
                      /\ o.kind \in {"connect_timeout", "read_timeout"},
     responses |-> last.responses + IF o.kind = "response" THEN 1 ELSE 0]

\* (mutant) the digest is attached whether or not signing is enabled
content_digest_ignoring_flag(has_data, data) ==
    IF has_data
    THEN [present |-> TRUE, value |-> calculate_signature(data)]
    ELSE NoDigest

\* headers['Content-Digest'], set when signing is enabled and there is a body
content_digest(has_data, data) ==
    IF config.enable_signed_requests /\ has_data
    THEN [present |-> TRUE, value |-> calculate_signature(data)]
    ELSE NoDigest

\* _make_request up to session.request: the Retry budget starts at
\* config.max_retries; json_data is json.dumps(data) if data else None
new_request(method, endpoint, path_id, has_data, data) ==
    [method |-> method, endpoint |-> endpoint, path_id |-> path_id,
     has_data |-> has_data, data |-> data,
     content_digest |-> content_digest(has_data, data),
     total |-> config.max_retries]

\* (mutant) the identifier is drawn again for every transmission
transmission_regenerating_id(r) ==
    [method |-> r.method, endpoint |-> r.endpoint, path_id |-> r.path_id,
     has_data |-> r.has_data, content_digest |-> r.content_digest,
     data |-> IF r.data.depositId # Absent
              THEN [r.data EXCEPT !.depositId = generate_request_id(uuid_count + Len(wire))]
              ELSE IF r.data.payoutId # Absent
              THEN [r.data EXCEPT !.payoutId = generate_request_id(uuid_count + Len(wire))]
              ELSE r.data]

\* one transmission: what goes out is the request as _make_request built it
transmission(r) ==
    [method |-> r.method, endpoint |-> r.endpoint, path_id |-> r.path_id,
     has_data |-> r.has_data, data |-> r.data,
     content_digest |-> r.content_digest]

predict_request(phone_number) ==
    new_request("POST", "/v1/predict-correspondent", None, TRUE,
                [EmptyData EXCEPT !.msisdn = phone_number])

\* the submission of request_deposit / request_payout, with a fresh id
submit_request(c, corr, n) ==
    IF c.op = "request_deposit"
    THEN new_request("POST", "/deposits", None, TRUE,
                     DepositRequest_to_dict(generate_request_id(n), c, corr))
    ELSE new_request("POST", "/payouts", None, TRUE,
                     PayoutRequest_to_dict(generate_request_id(n), c, corr))

submitted_id(r) == IF r.endpoint = "/deposits" THEN r.data.depositId ELSE r.data.payoutId

\* the locals of one request_deposit / request_payout call
NoFrame ==
    [pc |-> "idle", call |-> NoCall, stage |-> "none", correspondent |-> None,
     request |-> NoRequest, wire |-> <<>>, result |-> NoResult]

Threads == {1, 2}

NoThreads == [t \in Threads |-> NoFrame]

\* a PawaPayConfig that passes validate()
Config(max_retries, callback_secret, enable_signed_requests) ==
    [api_token |-> "token", environment |-> "sandbox",
     callback_secret |-> callback_secret,
     enable_signed_requests |-> enable_signed_requests,
     private_key_path |-> IF enable_signed_requests THEN "private.pem" ELSE None,
     max_retries |-> max_retries]

Init ==
    /\ config \in {Config(r, None, FALSE) : r \in 0..MaxRetriesBound}
    /\ session = TRUE
    /\ pc = "idle"
    /\ call = NoCall
    /\ stage = "none"
    /\ correspondent = None
    /\ request = NoRequest
    /\ wire = <<>>
    /\ last = NoAnswer
    /\ result = NoResult
    /\ uuid_count = 0
    /\ threads = NoThreads

\* (mutant) only None counts as "no correspondent": an empty string passes
no_correspondent_only_none(c) == c = None

\* (mutant) the supplied correspondent is never used: always predict
no_correspondent_always(c) == c = c

\* `if not correspondent:` of request_deposit / request_payout
no_correspondent(c) == Falsy(c)

\* entry of request_deposit / request_payout, up to the first transmission
begin_transaction(c) ==
    /\ pc = "idle"
    /\ uuid_count < MaxUuid
    /\ call' = c
    /\ correspondent' = c.correspondent
    /\ IF no_correspondent(c.correspondent)
       THEN /\ stage' = "predict"
            /\ request' = predict_request(c.phone_number)
            /\ uuid_count' = uuid_count
       ELSE /\ stage' = "submit"
            /\ request' = submit_request(c, c.correspondent, uuid_count + 1)
            /\ uuid_count' = uuid_count + 1
    /\ pc' = "sending"
    /\ UNCHANGED <<config, session, threads, wire, last, result>>

request_deposit ==
    \E a \in Amounts, cur \in Currencies, p \in PhoneNumbers,
       corr \in GivenCorrespondents, d \in Descriptions :
        begin_transaction([NoCall EXCEPT
            !.op = "request_deposit", !.amount = a, !.currency = cur,
            !.phone_number = p, !.correspondent = corr,
            !.statement_description = d])

request_payout ==
    \E a \in Amounts, cur \in Currencies, ctry \in Countries, p \in PhoneNumbers,
       corr \in GivenCorrespondents, d \in Descriptions :
        begin_transaction([NoCall EXCEPT
            !.op = "request_payout", !.amount = a, !.currency = cur,
            !.country = ctry, !.phone_number = p, !.correspondent = corr,
            !.statement_description = d])


\* entry of a call that sends one request and maps its answer
begin_single(c, st, r) ==
    /\ pc = "idle"
    /\ call' = c
    /\ stage' = st
    /\ request' = r
    /\ pc' = "sending"
    /\ UNCHANGED <<config, session, threads, correspondent, wire, last, result, uuid_count>>

call_predict_correspondent ==
    \E p \in PhoneNumbers :
        begin_single([NoCall EXCEPT !.op = "predict_correspondent",
                                    !.phone_number = p],
                     "predict", predict_request(p))

check_deposit_status ==
    \E id \in TransactionIds :
        begin_single([NoCall EXCEPT !.op = "check_deposit_status", !.id = id],
                     "status", new_request("GET", "/deposits/", id, FALSE, EmptyData))

check_payout_status ==
    \E id \in TransactionIds :
        begin_single([NoCall EXCEPT !.op = "check_payout_status", !.id = id],
                     "status", new_request("GET", "/payouts/", id, FALSE, EmptyData))

\* get_correspondents(): one GET /active-conf
get_correspondents ==
    begin_single([NoCall EXCEPT !.op = "get_correspondents"],
                 "conf", new_request("GET", "/active-conf", None, FALSE, EmptyData))

\* the answers the current transmission can get
Answers ==
    CASE stage = "predict" -> PredictAnswers
      [] stage = "submit" -> SubmitAnswers(call.op, submitted_id(request))
      [] stage = "status" -> StatusAnswers(call.op, call.id)
      [] stage = "conf" -> ConfAnswers
      [] OTHER -> {}

\* the call is over with result `res`
finish(res) ==
    /\ pc' = "done"
    /\ result' = res
    /\ UNCHANGED <<config, session, threads, call, stage, correspondent, request, uuid_count>>

\* urllib3 sends the same request again (after its backoff sleep)
resend ==
    /\ pc = "sending"
    /\ \E o \in Answers :
        LET step == urlopen(request.method, request.total, o)
        IN  /\ step.kind = "retry"
            /\ wire' = Append(wire, transmission(request))
            /\ last' = Seen(o)
            /\ request' = [request EXCEPT !.total = step.total]
            /\ UNCHANGED <<config, session, threads, pc, call, stage, correspondent, result, uuid_count>>

\* the prediction request is over: predict_correspondent returns or raises,
\* and request_deposit / request_payout goes on to build its submission
prediction_back ==
    /\ pc = "sending"
    /\ stage = "predict"
    /\ \E o \in Answers :
        LET step == urlopen(request.method, request.total, o)
            predicted == predict_correspondent(make_request_outcome(step, o))
        IN  /\ step.kind # "retry"
            /\ wire' = Append(wire, transmission(request))
            /\ IF call.op = "predict_correspondent" \/ predicted.kind = "raise"
               THEN finish(predicted) /\ last' = Seen(o)
               ELSE IF no_correspondent(predicted.scalar)
               THEN /\ finish(Raise(Exc("PawaPayException",
                            "Could not predict correspondent for phone number")))
                    /\ last' = Seen(o)
               ELSE /\ correspondent' = predicted.scalar
                    /\ last' = NoAnswer
                    /\ stage' = "submit"
                    /\ request' = submit_request(call, predicted.scalar, uuid_count + 1)
                    /\ uuid_count' = uuid_count + 1
                    /\ UNCHANGED <<config, session, threads, pc, call, result>>

\* the submission is over: the response is mapped or the error raised
submission_back ==
    /\ pc = "sending"
    /\ stage = "submit"
    /\ \E o \in Answers :
        LET step == urlopen(request.method, request.total, o)
            out == make_request_outcome(step, o)
        IN  /\ step.kind # "retry"
            /\ wire' = Append(wire, transmission(request))
            /\ last' = Seen(o)
            /\ finish(IF call.op = "request_deposit"
                      THEN request_deposit_map(call, correspondent, out)
                      ELSE request_payout_map(call, correspondent, out))

\* the status request is over
status_back ==
    /\ pc = "sending"
    /\ stage = "status"
    /\ \E o \in Answers :
        LET step == urlopen(request.method, request.total, o)
            out == make_request_outcome(step, o)
        IN  /\ step.kind # "retry"
            /\ wire' = Append(wire, transmission(request))
            /\ last' = Seen(o)
            /\ finish(IF call.op = "check_deposit_status"
                      THEN check_deposit_status_map(out)
                      ELSE check_payout_status_map(out))

\* the active-configuration request is over
configuration_back ==
    /\ pc = "sending"
    /\ stage = "conf"
    /\ \E o \in Answers :
        LET step == urlopen(request.method, request.total, o)
            out == make_request_outcome(step, o)
        IN  /\ step.kind # "retry"
            /\ wire' = Append(wire, transmission(request))
            /\ last' = Seen(o)
            /\ finish(get_correspondents_map(out, countries_of(o)))

\* validate_callback(payload, signature): no request is sent
call_validate_callback ==
    \E payload \in Payloads, signature \in Signatures :
        /\ pc = "idle"
        /\ call' = [NoCall EXCEPT !.op = "validate_callback",
                                  !.payload = payload, !.signature = signature]
        /\ pc' = "done"
        /\ result' = validate_callback(config.callback_secret, payload, signature)
        /\ UNCHANGED <<config, session, threads, stage, correspondent, request, wire, last, uuid_count>>

\* the call's result or exception reaches the caller; the frame is gone
return_to_caller ==
    /\ pc = "done"
    /\ pc' = "idle"
    /\ call' = NoCall
    /\ stage' = "none"
    /\ correspondent' = None
    /\ request' = NoRequest
    /\ wire' = <<>>
    /\ last' = NoAnswer
    /\ result' = NoResult
    /\ UNCHANGED <<config, session, threads, uuid_count>>

Next ==
    \/ request_deposit
    \/ request_payout
    \/ call_predict_correspondent
    \/ check_deposit_status
    \/ check_payout_status
    \/ get_correspondents
    \/ call_validate_callback
    \/ resend
    \/ prediction_back
    \/ submission_back
    \/ status_back
    \/ configuration_back
    \/ return_to_caller

Spec == Init /\ [][Next]_vars

(***************************************************************************)
(* The callback verifier on its own: clients built with each callback      *)
(* secret (and PawaPayConfig's default max_retries), validating callbacks. *)
(***************************************************************************)
DefaultMaxRetries == 3

InitCallback ==
    /\ config \in {Config(DefaultMaxRetries, secret, FALSE) : secret \in Secrets}
    /\ session = TRUE
    /\ pc = "idle"
    /\ call = NoCall
    /\ stage = "none"
    /\ correspondent = None
    /\ request = NoRequest
    /\ wire = <<>>
    /\ last = NoAnswer
    /\ result = NoResult
    /\ uuid_count = 0
    /\ threads = NoThreads

NextCallback ==
    \/ call_validate_callback
    \/ return_to_caller

SpecCallback == InitCallback /\ [][NextCallback]_vars


(***************************************************************************)
(* Clients with and without request signing (enable_signed_requests), with *)
(* max_retries = 1.                                                        *)
(***************************************************************************)
InitSigned ==
    /\ config \in {Config(1, None, signing) : signing \in BOOLEAN}
    /\ session = TRUE
    /\ pc = "idle"
    /\ call = NoCall
    /\ stage = "none"
    /\ correspondent = None
    /\ request = NoRequest
    /\ wire = <<>>
    /\ last = NoAnswer
    /\ result = NoResult
    /\ uuid_count = 0
    /\ threads = NoThreads

SpecSigned == InitSigned /\ [][Next]_vars

(***************************************************************************)
(* Construction: the caller builds a PawaPayConfig, valid or not, and      *)
(* calls PawaPayClient(config); on a client that exists it then calls      *)
(* predict_correspondent.                                                  *)
(***************************************************************************)
Environments == {"sandbox", "production"}

\* PawaPayConfig.validate(): the first failing check raises
validate(cfg) ==
    IF Falsy(cfg.api_token)
    THEN Raise(Exc("ValueError", "API token is required"))
    ELSE IF cfg.enable_signed_requests /\ Falsy(cfg.private_key_path)
    THEN Raise(Exc("ValueError",
            "Private key path is required when signed requests are enabled"))
    ELSE IF cfg.environment \notin Environments
    THEN Raise(Exc("ValueError", "Environment must be 'sandbox' or 'production'"))
    ELSE NoResult

\* PawaPayClient.__init__: validate, then create and mount the session
construct ==
    /\ pc = "new"
    /\ IF validate(config).kind = "raise"
       THEN /\ pc' = "failed"
            /\ result' = validate(config)
            /\ session' = FALSE
       ELSE /\ pc' = "idle"
            /\ result' = NoResult
            /\ session' = TRUE
    /\ UNCHANGED <<config, threads, call, stage, correspondent, request, wire, last,
                   uuid_count>>

ConfigCandidates ==
    [api_token : {None, "", "token"},
     environment : {"sandbox", "production", "staging", "Sandbox"},
     callback_secret : {None},
     enable_signed_requests : BOOLEAN,
     private_key_path : {None, "", "private.pem"},
     max_retries : {DefaultMaxRetries}]

InitConstruct ==
    /\ config \in ConfigCandidates
    /\ session = FALSE
    /\ pc = "new"
    /\ call = NoCall
    /\ stage = "none"
    /\ correspondent = None
    /\ request = NoRequest
    /\ wire = <<>>
    /\ last = NoAnswer
    /\ result = NoResult
    /\ uuid_count = 0
    /\ threads = NoThreads

NextConstruct ==
    \/ construct
    \/ call_predict_correspondent
    \/ resend
    \/ prediction_back
    \/ return_to_caller

SpecConstruct == InitConstruct /\ [][NextConstruct]_vars

(***************************************************************************)
(* Two threads share one client (max_retries = 1) and each makes one       *)
(* request_deposit / request_payout call; their steps interleave freely.   *)
(* self.config and the uuid4 source are shared, everything else a call     *)
(* touches is local to it.  The provider either accepts (echoing values    *)
(* of its own) or cannot be connected to.                                  *)
(***************************************************************************)
TwoCallsAnswers(f) ==
    IF f.stage = "predict"
    THEN {o \in PredictAnswers :
            \/ o.kind = "connection_refused"
            \/ /\ o.kind = "response" /\ o.status = 200 /\ o.has_content
               /\ o.obj.correspondent = "MTN_MOMO_KEN"}
    ELSE {o \in SubmitAnswers(f.call.op, submitted_id(f.request)) :
            \/ o.kind = "connection_refused"
            \/ /\ o.kind = "response" /\ o.status = 200 /\ o.has_content
               /\ o.obj.status = "ACCEPTED" /\ o.obj.amount = "999"}

\* thread t enters request_deposit / request_payout
thread_begin(t, c) ==
    /\ threads[t].pc = "idle"
    /\ uuid_count < MaxUuid
    /\ IF no_correspondent(c.correspondent)
       THEN /\ threads' = [threads EXCEPT ![t] =
                    [@ EXCEPT !.pc = "sending", !.call = c, !.stage = "predict",
                              !.correspondent = c.correspondent,
                              !.request = predict_request(c.phone_number)]]
            /\ uuid_count' = uuid_count
       ELSE /\ threads' = [threads EXCEPT ![t] =
                    [@ EXCEPT !.pc = "sending", !.call = c, !.stage = "submit",
                              !.correspondent = c.correspondent,
                              !.request = submit_request(c, c.correspondent,
                                                         uuid_count + 1)]]
            /\ uuid_count' = uuid_count + 1
    /\ UNCHANGED <<config, session, pc, call, stage, correspondent, request, wire,
                   last, result>>

thread_request_deposit ==
    \E t \in Threads, a \in Amounts, cur \in Currencies, p \in PhoneNumbers,
       corr \in {None, "MPESA_KEN"} :
        thread_begin(t, [NoCall EXCEPT
            !.op = "request_deposit", !.amount = a, !.currency = cur,
            !.phone_number = p, !.correspondent = corr])

thread_request_payout ==
    \E t \in Threads, a \in Amounts, cur \in Currencies, ctry \in Countries,
       p \in PhoneNumbers, corr \in {None, "MPESA_KEN"} :
        thread_begin(t, [NoCall EXCEPT
            !.op = "request_payout", !.amount = a, !.currency = cur,
            !.country = ctry, !.phone_number = p, !.correspondent = corr])

\* urllib3 sends thread t's request again
thread_resend ==
    \E t \in Threads :
        LET f == threads[t]
        IN  /\ f.pc = "sending"
            /\ \E o \in TwoCallsAnswers(f) :
                LET step == urlopen(f.request.method, f.request.total, o)
                IN  /\ step.kind = "retry"
                    /\ threads' = [threads EXCEPT ![t] =
                            [@ EXCEPT !.wire = Append(@, transmission(f.request)),
                                      !.request = [@ EXCEPT !.total = step.total]]]
            /\ UNCHANGED <<config, session, pc, call, stage, correspondent, request,
                           wire, last, result, uuid_count>>

\* thread t's prediction request is over
thread_prediction_back ==
    \E t \in Threads :
        LET f == threads[t]
        IN  /\ f.pc = "sending"
            /\ f.stage = "predict"
            /\ \E o \in TwoCallsAnswers(f) :
                LET step == urlopen(f.request.method, f.request.total, o)
                    predicted == predict_correspondent(make_request_outcome(step, o))
                    sent == Append(f.wire, transmission(f.request))
                IN  /\ step.kind # "retry"
                    /\ IF predicted.kind = "raise"
                       THEN /\ threads' = [threads EXCEPT ![t] =
                                    [@ EXCEPT !.wire = sent, !.pc = "done",
                                              !.result = predicted]]
                            /\ uuid_count' = uuid_count
                       ELSE IF no_correspondent(predicted.scalar)
                       THEN /\ threads' = [threads EXCEPT ![t] =
                                    [@ EXCEPT !.wire = sent, !.pc = "done",
                                              !.result = Raise(Exc("PawaPayException",
                                    "Could not predict correspondent for phone number"))]]
                            /\ uuid_count' = uuid_count
                       ELSE /\ threads' = [threads EXCEPT ![t] =
                                    [@ EXCEPT !.wire = sent, !.stage = "submit",
                                              !.correspondent = predicted.scalar,
                                              !.request = submit_request(f.call,
                                                  predicted.scalar, uuid_count + 1)]]
                            /\ uuid_count' = uuid_count + 1
            /\ UNCHANGED <<config, session, pc, call, stage, correspondent, request,
                           wire, last, result>>

\* thread t's submission is over
thread_submission_back ==
    \E t \in Threads :
        LET f == threads[t]
        IN  /\ f.pc = "sending"
            /\ f.stage = "submit"
            /\ \E o \in TwoCallsAnswers(f) :
                LET step == urlopen(f.request.method, f.request.total, o)
                    out == make_request_outcome(step, o)
                IN  /\ step.kind # "retry"
                    /\ threads' = [threads EXCEPT ![t] =
                            [@ EXCEPT !.wire = Append(@, transmission(f.request)),
                                      !.pc = "done",
                                      !.result =
                                        IF f.call.op = "request_deposit"
                                        THEN request_deposit_map(f.call, f.correspondent, out)
                                        ELSE request_payout_map(f.call, f.correspondent, out)]]
            /\ UNCHANGED <<config, session, pc, call, stage, correspondent, request,
                           wire, last, result, uuid_count>>

InitTwoCalls ==
    /\ config = Config(1, None, FALSE)
    /\ session = TRUE
    /\ pc = "idle"
    /\ call = NoCall
    /\ stage = "none"
    /\ correspondent = None
    /\ request = NoRequest
    /\ wire = <<>>
    /\ last = NoAnswer
    /\ result = NoResult
    /\ uuid_count = 0
    /\ threads = NoThreads

NextTwoCalls ==
    \/ thread_request_deposit
    \/ thread_request_payout
    \/ thread_resend
    \/ thread_prediction_back
    \/ thread_submission_back

SpecTwoCalls == InitTwoCalls /\ [][NextTwoCalls]_vars

(***************************************************************************)
(* Properties.                                                             *)
(***************************************************************************)
SubmitEndpoints == {"/deposits", "/payouts"}

\* the transmissions of the call's submission
Submissions == {i \in DOMAIN wire : wire[i].endpoint \in SubmitEndpoints}

\* how often `request` has been transmitted
RequestAttempts ==
    Cardinality({i \in DOMAIN wire : wire[i].endpoint = request.endpoint})

Answered2xx == last.answer.kind = "response" /\ last.answer.status \in SuccessStatuses

Timeouts == {"connect_timeout", "read_timeout"}

\* C1: the depositId / payoutId of a request_deposit / request_payout call is
\* drawn once, before the submission's first transmission, and every
\* transmission of the submission, retries included, carries that identifier:
\* it is the latest (and for this call only) value drawn from uuid4.
C1_SameIdOnEveryAttempt ==
    /\ (pc = "sending" /\ stage = "submit") =>
            /\ uuid_count >= 1
            /\ submitted_id(request) = generate_request_id(uuid_count)
    /\ \A i \in Submissions :
            /\ wire[i].has_data
            /\ submitted_id(wire[i]) # Absent
            /\ submitted_id(wire[i]) = generate_request_id(uuid_count)

\* a finished deposit whose submission was transmitted more than once
C1_Witness ==
    /\ pc = "done"
    /\ call.op = "request_deposit"
    /\ Cardinality(Submissions) >= 2
    /\ \A i \in Submissions : wire[i].data.depositId = generate_request_id(uuid_count)

\* C2: whatever the HTTP method, a request answered with a status in
\* {429, 500, 502, 503, 504} is sent again while fewer than max_retries
\* retries were made (so a call can end on such an answer only with
\* max_retries + 1 transmissions), and never more than max_retries + 1
\* transmissions of one request are made.
C2_TransientStatusRetried ==
    /\ RequestAttempts <= config.max_retries + 1
    /\ (pc = "done" /\ last.answer.kind = "response"
            /\ last.answer.status \in status_forcelist)
         => RequestAttempts = config.max_retries + 1

\* C3: a response whose status is outside 200-202 and outside
\* {429, 500, 502, 503, 504} ends the transport call: no further
\* transmission follows it.
C3_OtherStatusNotRetried ==
    (last.answer.kind = "response"
        /\ last.answer.status \notin SuccessStatuses \cup status_forcelist)
      => pc = "done"

\* C4: a transport call every transmission of which was answered with a
\* transient status, the retry policy being exhausted, fails with
\* PawaPayAPIException carrying the last response's status code and the
\* provider's error code and details.
C4_ExhaustedRetriesRaiseAPIException ==
    (pc = "done" /\ stage \in {"submit", "status"}
        /\ last.answer.kind = "response" /\ last.all_transient
        /\ RequestAttempts = config.max_retries + 1)
      => /\ result.kind = "raise"
         /\ result.exc.type = "PawaPayAPIException"
         /\ result.exc.status_code = last.answer.status
         /\ result.exc.error_code
              = PawaPayError_from_dict(response_json(last.answer)).error_code

\* the class _make_request raises when the connection cannot be made
ConnectionFailedType ==
    make_request_outcome(Raised("ConnectionError"), NoAnswer.answer).exc.type

\* C5: a transport call whose transmissions all timed out fails with an
\* error whose type differs from the type of a connection failure and from
\* the HTTP error type.
C5_TimeoutDistinguishable ==
    (pc = "done" /\ last.answer.kind \in Timeouts /\ last.all_timeouts)
      => /\ result.kind = "raise"
         /\ result.exc.type \notin {ConnectionFailedType, "PawaPayAPIException"}

\* C6: a 200-202 answer to a submission whose status field is REJECTED makes
\* request_deposit / request_payout raise an error of the library's own
\* taxonomy that carries the provider's rejectionCode and rejectionMessage.
C6_RejectionRaisesLibraryError ==
    (pc = "done" /\ stage = "submit" /\ Answered2xx
        /\ Get(response_json(last.answer).status) = "REJECTED")
      => /\ result.kind = "raise"
         /\ result.exc.type \in PawaPayTaxonomy
         /\ result.exc.code = Get(response_json(last.answer).rejectionCode)
         /\ result.exc.text = Get(response_json(last.answer).rejectionMessage)

\* the document the call maps: the first element of a status list, the body
\* of a submission's answer
HasMapped ==
    /\ Answered2xx
    /\ \/ stage = "submit"
       \/ stage = "status" /\ last.answer.has_content /\ last.answer.is_list
            /\ Len(last.answer.items) >= 1

Mapped ==
    IF stage = "status" THEN last.answer.items[1] ELSE response_json(last.answer)

\* C7: a mapped provider document whose status string is not a member of
\* TransactionStatus makes the call raise the library's unknown-status
\* error; no response is returned.
C7_UnknownStatusRaisesLibraryError ==
    (pc = "done" /\ HasMapped
        /\ Mapped.status \notin TransactionStatus \cup {Absent})
      => /\ result.kind = "raise"
         /\ result.exc.type \in PawaPayTaxonomy

\* C8: with a callback secret configured, validate_callback returns a bool
\* for every payload and every signature string, and returns true exactly
\* when the signature is the hex HMAC-SHA256 of the payload under the secret
\* (false for every other signature).
C8_TrueIffSignatureMatches ==
    (pc = "done" /\ call.op = "validate_callback"
        /\ ~Falsy(config.callback_secret) /\ call.signature # None)
      => /\ result.kind = "return"
         /\ result.flag
              <=> call.signature
                    = hmac_sha256_hexdigest(config.callback_secret, call.payload)

\* C9: with no callback secret (None or empty), validate_callback returns
\* false for every payload and signature and never raises.
C9_NoSecretReturnsFalse ==
    (pc = "done" /\ call.op = "validate_callback"
        /\ Falsy(config.callback_secret))
      => result = Flag(FALSE)

\* the secret is empty and the signature is the HMAC under the empty key
C9_Witness ==
    /\ pc = "done"
    /\ call.op = "validate_callback"
    /\ config.callback_secret = ""
    /\ call.signature = hmac_sha256_hexdigest("", call.payload)
    /\ result.kind = "return"
    /\ result.flag = FALSE

PredictEndpoint == "/v1/predict-correspondent"

Predictions == {i \in DOMAIN wire : wire[i].endpoint = PredictEndpoint}

TransactionOps == {"request_deposit", "request_payout"}

\* what predict_correspondent handed to request_deposit / request_payout for
\* the answer the prediction request ended on
Predicted ==
    predict_correspondent(
        make_request_outcome(urlopen(request.method, request.total, last.answer),
                             last.answer))

CouldNotPredict ==
    Raise(Exc("PawaPayException", "Could not predict correspondent for phone number"))

\* C11: a request_deposit / request_payout call made without a correspondent
\* whose prediction returned nothing (None or an empty string) ends in the
\* "Could not predict correspondent" error with no submission sent; in every
\* call all prediction transmissions come before all submission
\* transmissions, a call made without a correspondent submits only after a
\* prediction, and every submission carries a non-empty correspondent.
C11_NoSubmissionWithoutCorrespondent ==
    /\ (pc = "done" /\ call.op \in TransactionOps /\ stage = "predict"
            /\ Predicted.kind = "return" /\ Falsy(Predicted.scalar))
         => /\ result = CouldNotPredict
            /\ Submissions = {}
    /\ \A i \in Predictions : \A j \in Submissions : i < j
    /\ (call.op \in TransactionOps /\ Falsy(call.correspondent)
            /\ (Submissions # {} \/ stage = "submit"))
         => Predictions # {}
    /\ \A j \in Submissions :
            /\ wire[j].data.correspondent # Absent
            /\ ~Falsy(wire[j].data.correspondent)

\* a payout made without a correspondent whose prediction was answered 200
\* with an empty correspondent: the error is raised, nothing was submitted
C11_Witness ==
    /\ pc = "done"
    /\ call.op = "request_payout"
    /\ call.correspondent = None
    /\ Answered2xx
    /\ Get(response_json(last.answer).correspondent) = ""
    /\ result = CouldNotPredict
    /\ Predictions # {}
    /\ Submissions = {}

\* C12: a request_deposit / request_payout call made with a correspondent
\* sends no prediction request and no active-configuration request: it
\* transmits only its submission, whose body carries the supplied
\* correspondent unchanged.
C12_SuppliedCorrespondentUsedAsIs ==
    (call.op \in TransactionOps /\ ~Falsy(call.correspondent))
      => /\ stage = "submit"
         /\ request.data.correspondent = call.correspondent
         /\ Predictions = {}
         /\ \A i \in DOMAIN wire :
                /\ wire[i].endpoint \in SubmitEndpoints
                /\ wire[i].data.correspondent = call.correspondent

\* a deposit made with a correspondent no provider document lists was
\* accepted: its submission went out with that correspondent
C12_Witness ==
    /\ pc = "done"
    /\ call.op = "request_deposit"
    /\ call.correspondent = "no such correspondent"
    /\ result.kind = "return"
    /\ Submissions # {}
    /\ \A i \in Submissions : wire[i].data.correspondent = "no such correspondent"

\* C13: a request_deposit / request_payout call that returns a response
\* returns the caller's amount string, currency and phone number (as payer,
\* resp. recipient) and the correspondent its submission carried, whatever
\* the provider's answer echoed for these fields.
C13_ResponseCarriesCallersValues ==
    (pc = "done" /\ stage = "submit" /\ result.kind = "return")
      => /\ result.response.amount = call.amount
         /\ result.response.currency = call.currency
         /\ call.op = "request_deposit" => result.response.payer = call.phone_number
         /\ call.op = "request_payout" => result.response.recipient = call.phone_number
         /\ Submissions # {}
         /\ \A j \in Submissions :
                result.response.correspondent = wire[j].data.correspondent
         /\ ~Falsy(call.correspondent)
                => result.response.correspondent = call.correspondent

\* a deposit made without a correspondent returned a response although the
\* provider echoed another amount, currency, correspondent and payer
C13_Witness ==
    /\ pc = "done"
    /\ call.op = "request_deposit"
    /\ call.correspondent = None
    /\ call.amount = "12.5"
    /\ Answered2xx
    /\ response_json(last.answer).amount = "999"
    /\ response_json(last.answer).correspondent = "AIRTEL_UGA"
    /\ response_json(last.answer).payer = "256700000002"
    /\ result.kind = "return"
    /\ result.response.amount = "12.5"
    /\ result.response.correspondent = "MTN_MOMO_KEN"
    /\ result.response.payer = call.phone_number

\* the document get_correspondents read
Document == countries_of(last.answer)

RECURSIVE SumListed(_)
SumListed(countries) ==
    IF countries = <<>> THEN 0
    ELSE Len(listed(Head(countries))) + SumListed(Tail(countries))

\* C14: get_correspondents, answered 200-202 with an active-configuration
\* document, returns a list as long as the sum of the correspondents listed
\* under the countries; the i-th correspondent of the b-th country stands at
\* position (number listed under countries 1..b-1) + i, with its own code and
\* currency and with the country of the b-th country.
C14_FlatListInDocumentOrder ==
    (pc = "done" /\ call.op = "get_correspondents" /\ Answered2xx)
      => /\ result.kind = "return"
         /\ Len(result.list) = SumListed(Document)
         /\ \A b \in DOMAIN Document : \A i \in DOMAIN listed(Document[b]) :
                LET entry == result.list[SumListed(SubSeq(Document, 1, b - 1)) + i]
                IN  /\ entry.correspondent = listed(Document[b])[i].correspondent
                    /\ entry.currency = listed(Document[b])[i].currency
                    /\ entry.country = Document[b].country

\* a document of two countries, the first without correspondents, the second
\* with two, one of which names another country: two entries came back
C14_Witness ==
    /\ pc = "done"
    /\ call.op = "get_correspondents"
    /\ Answered2xx
    /\ Len(Document) = 2
    /\ Len(listed(Document[1])) = 0
    /\ Len(listed(Document[2])) = 2
    /\ listed(Document[2])[2].country = "ZZZ"
    /\ result.kind = "return"
    /\ Len(result.list) = 2
    /\ result.list[2].country = "KEN"

\* C15 as stated: with signing enabled every transmission carries a
\* Content-Digest that is the SHA-256 of the body transmitted, and with
\* signing disabled no transmission carries one.
C15_EveryRequestCarriesDigest ==
    \A i \in DOMAIN wire :
        IF config.enable_signed_requests
        THEN /\ wire[i].content_digest.present
             /\ wire[i].content_digest.value = calculate_signature(wire[i].data)
        ELSE ~wire[i].content_digest.present

\* C15 (amended): a transmission carries a Content-Digest exactly when
\* signing is enabled and the request has a body, and the digest is then the
\* SHA-256 of the body transmitted in that attempt; requests without a body
\* (the GETs) carry none even with signing enabled.
C15_RequestsWithBodyCarryDigest ==
    \A i \in DOMAIN wire :
        /\ wire[i].content_digest.present
              <=> (config.enable_signed_requests /\ wire[i].has_data)
        /\ wire[i].content_digest.present
              => wire[i].content_digest.value = calculate_signature(wire[i].data)
        /\ wire[i].method = "GET" => ~wire[i].has_data

\* with signing enabled, a payout's submission went out twice, each time
\* with the digest of its body
C15_Witness ==
    /\ config.enable_signed_requests
    /\ pc = "done"
    /\ call.op = "request_payout"
    /\ Cardinality(Submissions) >= 2
    /\ \A i \in Submissions :
            /\ wire[i].content_digest.present
            /\ wire[i].content_digest.value = calculate_signature(wire[i].data)

\* the configurations the constructor is to refuse
InvalidConfiguration ==
    \/ Falsy(config.api_token)
    \/ config.enable_signed_requests /\ Falsy(config.private_key_path)
    \/ config.environment \notin {"sandbox", "production"}

\* C17: PawaPayClient(config) with an empty credential, with signing enabled
\* but no private key path, or with an environment other than sandbox and
\* production fails with an error of the library's taxonomy (its
\* configuration error), with no session created and nothing sent; a
\* session exists, and requests are sent, only under a valid configuration.
C17_InvalidConfigurationRefused ==
    /\ (pc # "new" /\ InvalidConfiguration)
          => /\ pc = "failed"
             /\ ~session
             /\ wire = <<>>
             /\ result.kind = "raise"
             /\ result.exc.type \in PawaPayTaxonomy
    /\ (session \/ wire # <<>> \/ pc \in {"idle", "sending", "done"})
          => ~InvalidConfiguration

\* C18: validate_callback returns a boolean and does not raise, for every
\* payload and every signature, the absent signature (None) and a signature
\* that is not ASCII included; for an absent signature it returns false.
C18_ValidateCallbackNeverRaises ==
    (pc = "done" /\ call.op = "validate_callback")
      => /\ result.kind = "return"
         /\ call.signature = None => result.flag = FALSE

\* C19 as stated: a request_deposit / request_payout call that fails on a
\* 200-202 answer (rejection, or a mapping failure) has transmitted its
\* submission exactly once.
C19_BusinessFailureSentExactlyOnce ==
    (pc = "done" /\ stage = "submit" /\ Answered2xx /\ result.kind = "raise")
      => Cardinality(Submissions) = 1

\* C19 (amended): the 200-202 answer to a submission ends the call at once:
\* it is the only HTTP response the submission got, the answered
\* transmission is the last thing the call sent, and every transmission
\* before it is a retry urllib3 made after a connection failure (one unit of
\* the Retry budget each), so the submission was sent 1 + retries-used times.
C19_NothingSentAfterBusinessFailure ==
    (stage = "submit" /\ Answered2xx)
      => /\ pc = "done"
         /\ last.responses = 1
         /\ wire # <<>>
         /\ wire[Len(wire)].endpoint \in SubmitEndpoints
         /\ Cardinality(Submissions) = 1 + config.max_retries - request.total

\* a deposit whose first transmission found no connection and whose second
\* was answered 200 REJECTED: the error is raised after two transmissions
C19_Witness ==
    /\ pc = "done"
    /\ call.op = "request_deposit"
    /\ stage = "submit"
    /\ Answered2xx
    /\ Get(response_json(last.answer).status) = "REJECTED"
    /\ result.kind = "raise"
    /\ last.responses = 1
    /\ Cardinality(Submissions) = 2

\* the list GET /deposits/{id} / GET /payouts/{id} was answered with
StatusList == last.answer.items

\* C20: a status check answered 200-202 with a list maps the list's first
\* element and nothing else (its result is the mapping of that element,
\* whatever follows it), and, answered with an empty list, raises an error
\* of the library's taxonomy.
C20_FirstElementOrLibraryError ==
    (pc = "done" /\ stage = "status" /\ Answered2xx
        /\ last.answer.has_content /\ last.answer.is_list)
      => IF Len(StatusList) = 0
         THEN /\ result.kind = "raise"
              /\ result.exc.type \in PawaPayTaxonomy
         ELSE result = IF call.op = "check_deposit_status"
                       THEN DepositResponse_from_dict(StatusList[1])
                       ELSE PayoutResponse_from_dict(StatusList[1])

\* the submission transmissions of frame f
SubmissionsOf(f) == {i \in DOMAIN f.wire : f.wire[i].endpoint \in SubmitEndpoints}

\* frame f's submitted bodies and returned response hold f's own arguments
OwnValuesOnly(f) ==
    /\ \A i \in SubmissionsOf(f) :
            LET body == f.wire[i].data
            IN  /\ body.amount = f.call.amount
                /\ body.currency = f.call.currency
                /\ body.correspondent = f.correspondent
                /\ ~Falsy(f.call.correspondent)
                        => body.correspondent = f.call.correspondent
                /\ IF f.call.op = "request_deposit"
                   THEN body.payer = f.call.phone_number /\ body.depositId # Absent
                   ELSE body.recipient = f.call.phone_number /\ body.payoutId # Absent
    /\ (f.pc = "done" /\ f.result.kind = "return")
         => /\ f.result.response.amount = f.call.amount
            /\ f.result.response.currency = f.call.currency
            /\ f.result.response.correspondent = f.correspondent
            /\ IF f.call.op = "request_deposit"
               THEN f.result.response.payer = f.call.phone_number
               ELSE f.result.response.recipient = f.call.phone_number

\* C16: of two request_deposit / request_payout calls running on one client
\* in any interleaving, with equal or different arguments, every submission
\* of the one carries an identifier different from every submission of the
\* other, and each call's submitted bodies and returned response hold that
\* call's own amount, currency, correspondent and phone number.
C16_CallsDoNotShareValues ==
    /\ \A t \in Threads : OwnValuesOnly(threads[t])
    /\ \A t \in Threads : \A u \in Threads \ {t} :
          \A i \in SubmissionsOf(threads[t]) : \A j \in SubmissionsOf(threads[u]) :
              submitted_id(threads[t].wire[i]) # submitted_id(threads[u].wire[j])

\* two deposits with identical arguments are in flight together, each with
\* its submission transmitted once and about to be sent again
C16_Witness ==
    /\ threads[1].pc = "sending" /\ threads[2].pc = "sending"
    /\ threads[1].stage = "submit" /\ threads[2].stage = "submit"
    /\ threads[1].call = threads[2].call
    /\ threads[1].call.op = "request_deposit"
    /\ threads[1].call.correspondent = None
    /\ Cardinality(SubmissionsOf(threads[1])) = 1
    /\ Cardinality(SubmissionsOf(threads[2])) = 1
    /\ submitted_id(threads[1].request) = generate_request_id(2)
    /\ submitted_id(threads[2].request) = generate_request_id(1)

=============================================================================
